---- MODULE Spec2Model ----
(***************************************************************************)
(* qdbmp: a codec for uncompressed 8, 24 and 32 bit BMP images.            *)
(*                                                                         *)
(* The model follows src/qdbmp.c.  A bitmap handle is <<>> (NULL) or a     *)
(* one-element sequence holding the record [Header, Palette, Data].        *)
(* Byte buffers are sequences of numbers 0..255; the byte at C offset k    *)
(* is element k+1.  A NULL palette is the empty sequence.                  *)
(*                                                                         *)
(* Environment assumptions: calloc/malloc/fopen succeed whenever the file  *)
(* exists (the out-of-memory exits of the code are not taken), and every   *)
(* magnitude the model reaches is far below 2^31, so no uint32_t or int    *)
(* computation of the code wraps.  malloc returns memory whose bytes are   *)
(* not initialised: each such buffer is filled with a byte chosen          *)
(* nondeterministically from HeapBytes.  An access past the end of the     *)
(* pixel buffer is undefined: the process either stops there (SIGSEGV) or  *)
(* goes on, a read finding a byte chosen from HeapBytes and a write        *)
(* landing in memory the model does not follow.                            *)
(***************************************************************************)
EXTENDS Integers, Sequences, FiniteSets, TLC

VARIABLES
    bmp,                  \* the caller's BMP* handle
    BMP_LAST_ERROR_CODE,  \* the global last-error slot
    disk,                 \* the file at `filename': [exists, bytes]
    sink,                 \* what the last BMP_WriteFile was given: [src, limited, cap]
    call,                 \* the last library call: [op, args, out]
    nsets,                \* number of successful setter calls so far
    touched               \* offsets from bmp->Data the last call read or wrote

vars == <<bmp, BMP_LAST_ERROR_CODE, disk, sink, call, nsets, touched>>

----------------------------------------------------------------------------
(* Bounds of the exploration *)

MaxWidth == 5
MaxHeight == 2
MaxSide == 2
MaxSets == 2
MaxShort == 6

----------------------------------------------------------------------------
(* Status codes, in the order of BMP_ERROR_STRING *)

BMP_OK == 0
BMP_ERROR == 1
BMP_OUT_OF_MEMORY == 2
BMP_IO_ERROR == 3
BMP_FILE_NOT_FOUND == 4
BMP_FILE_NOT_SUPPORTED == 5
BMP_FILE_INVALID == 6
BMP_INVALID_ARGUMENT == 7
BMP_TYPE_MISMATCH == 8

BMP_PALETTE_SIZE == 256 * 4

NULL == <<>>

\* The byte at C offset off of buffer buf
At(buf, off) == buf[off + 1]

\* buf with the byte at C offset off replaced by v
Put(buf, off, v) == [buf EXCEPT ![off + 1] = v]

\* calloc(n, 1): n zero bytes
Zeroes(n) == [i \in 1..n |-> 0]

\* malloc(n): n bytes of whatever the heap held, here all equal to fill
Uninit(n, fill) == [i \in 1..n |-> fill]

HeapBytes == {0, 170}

----------------------------------------------------------------------------
(* BMP_Create *)

\* A row size that is not rounded up
BytesPerRow_Unpadded(width, depth) == width * (depth \div 8)

\* bytes_per_row of BMP_Create: width * (depth >> 3), rounded up to a multiple of 4
BytesPerRow(width, depth) ==
    LET bytes_per_pixel == depth \div 8
        bytes_per_row == width * bytes_per_pixel
    IN  bytes_per_row + (IF bytes_per_row % 4 # 0 THEN 4 - (bytes_per_row % 4) ELSE 0)

\* The header BMP_Create fills in
CreateHeader(width, height, depth) ==
    [ Magic |-> 19778,
      FileSize |-> BytesPerRow(width, depth) * height + 54
                     + (IF depth = 8 THEN BMP_PALETTE_SIZE ELSE 0),
      Reserved1 |-> 0,
      Reserved2 |-> 0,
      DataOffset |-> 54 + (IF depth = 8 THEN BMP_PALETTE_SIZE ELSE 0),
      HeaderSize |-> 40,
      Width |-> width,
      Height |-> height,
      Planes |-> 1,
      BitsPerPixel |-> depth,
      CompressionType |-> 0,
      ImageDataSize |-> BytesPerRow(width, depth) * height,
      HPixelsPerMeter |-> 0,
      VPixelsPerMeter |-> 0,
      ColorsUsed |-> 0,
      ColorsRequired |-> 0 ]

\* The bitmap BMP_Create allocates
NewBitmap(width, height, depth) ==
    LET hdr == CreateHeader(width, height, depth)
    IN  << [ Header |-> hdr,
             Palette |-> IF hdr.BitsPerPixel = 8 THEN Zeroes(BMP_PALETTE_SIZE) ELSE NULL,
             Data |-> Zeroes(hdr.ImageDataSize) ] >>

\* A creation that checks the depth before the dimensions
BMP_Create_DepthFirst(width, height, depth) ==
    IF depth # 8 /\ depth # 24 /\ depth # 32
    THEN [ret |-> NULL, status |-> BMP_FILE_NOT_SUPPORTED]
    ELSE IF height <= 0 \/ width <= 0
    THEN [ret |-> NULL, status |-> BMP_INVALID_ARGUMENT]
    ELSE [ret |-> NewBitmap(width, height, depth), status |-> BMP_OK]

\* BMP_Create as a function: the handle returned and the status left behind
BMP_Create(width, height, depth) ==
    IF height <= 0 \/ width <= 0
    THEN [ret |-> NULL, status |-> BMP_INVALID_ARGUMENT]
    ELSE IF depth # 8 /\ depth # 24 /\ depth # 32
    THEN [ret |-> NULL, status |-> BMP_FILE_NOT_SUPPORTED]
    ELSE [ret |-> NewBitmap(width, height, depth), status |-> BMP_OK]

----------------------------------------------------------------------------
(* Dimension and depth accessors *)

\* The value stored by (uint32_t) -1 and the low 16 bits of (uint16_t) -1
\* are both reported here as -1
BMP_GetWidth(b) ==
    IF b = NULL THEN [ret |-> -1, status |-> BMP_INVALID_ARGUMENT]
    ELSE [ret |-> b[1].Header.Width, status |-> BMP_OK]

BMP_GetHeight(b) ==
    IF b = NULL THEN [ret |-> -1, status |-> BMP_INVALID_ARGUMENT]
    ELSE [ret |-> b[1].Header.Height, status |-> BMP_OK]

BMP_GetDepth(b) ==
    IF b = NULL THEN [ret |-> -1, status |-> BMP_INVALID_ARGUMENT]
    ELSE [ret |-> b[1].Header.BitsPerPixel, status |-> BMP_OK]

----------------------------------------------------------------------------
(* Pixel and palette accessors.  Each returns the status it leaves in      *)
(* BMP_LAST_ERROR_CODE; a getter also returns the values it stores through *)
(* its output pointers (<<>> when it stores nothing), a setter the handle  *)
(* with the bytes it has written.                                          *)

\* bytes_per_row as the accessors compute it
RowBytes(b) == b[1].Header.ImageDataSize \div b[1].Header.Height

\* (Height - y - 1) * bytes_per_row + x * bytes_per_pixel
PixelOffset(b, x, y, bytes_per_pixel) ==
    (b[1].Header.Height - y - 1) * RowBytes(b) + x * bytes_per_pixel

\* The offsets from b->Data that pixel accessor op dereferences at (x, y):
\* none when the call is refused, the pixel's index byte at depth 8, the
\* three colour bytes otherwise
PixelBytes(op, b, x, y) ==
    IF b = NULL \/ x >= b[1].Header.Width \/ y >= b[1].Header.Height
    THEN {}
    ELSE IF op \in {"BMP_GetPixelIndex", "BMP_SetPixelIndex"}
    THEN IF b[1].Header.BitsPerPixel # 8 THEN {} ELSE {PixelOffset(b, x, y, 1)}
    ELSE IF b[1].Header.BitsPerPixel = 8
    THEN IF op = "BMP_GetPixelRGB" THEN {PixelOffset(b, x, y, 1)} ELSE {}
    ELSE IF op = "BMP_SetPixelRGB"
            /\ b[1].Header.BitsPerPixel # 24 /\ b[1].Header.BitsPerPixel # 32
    THEN {}
    ELSE {PixelOffset(b, x, y, b[1].Header.BitsPerPixel \div 8) + k : k \in 0..2}

\* Some offset of offs is outside a buffer of size bytes
Overflows(offs, size) == \E k \in offs : k < 0 \/ k >= size

\* The handle as a read through b->Data sees memory: the buffer, followed by
\* what the heap holds behind it, here bytes equal to junk, as far as any
\* row loop or accessor reaches
InHeap(b, junk) ==
    IF b = NULL THEN b
    ELSE [b EXCEPT ![1].Data =
             @ \o Uninit(4 * b[1].Header.Width
                           + b[1].Header.Height * b[1].Header.Width, junk)]

\* The values the bytes behind the buffer can have when offs reads them
Junk(b, offs) ==
    IF b # NULL /\ Overflows(offs, Len(b[1].Data)) THEN HeapBytes ELSE {0}

BMP_GetPixelRGB(b, x, y) ==
    IF b = NULL \/ x >= b[1].Header.Width \/ y >= b[1].Header.Height
    THEN [status |-> BMP_INVALID_ARGUMENT, out |-> <<>>]
    ELSE LET bytes_per_pixel == b[1].Header.BitsPerPixel \div 8
             off == PixelOffset(b, x, y, bytes_per_pixel)
             \* in indexed mode the pixel's value is an index within the palette
             buf == IF b[1].Header.BitsPerPixel = 8 THEN b[1].Palette ELSE b[1].Data
             pixel == IF b[1].Header.BitsPerPixel = 8
                      THEN At(b[1].Data, off) * 4
                      ELSE off
         IN  [status |-> BMP_OK,
              out |-> <<At(buf, pixel + 2), At(buf, pixel + 1), At(buf, pixel + 0)>>]

\* The bytes BMP_SetPixelRGB stores, in BGR order
StoreRGB(b, pixel, r, g, bl) ==
    [b EXCEPT ![1].Data = Put(Put(Put(@, pixel + 2, r), pixel + 1, g), pixel + 0, bl)]

\* A setter whose bounds check lets x = Width and y = Height through
BMP_SetPixelRGB_OffByOne(b, x, y, r, g, bl) ==
    IF b = NULL \/ x > b[1].Header.Width \/ y > b[1].Header.Height
    THEN [bmp |-> b, status |-> BMP_INVALID_ARGUMENT]
    ELSE IF b[1].Header.BitsPerPixel # 24 /\ b[1].Header.BitsPerPixel # 32
    THEN [bmp |-> b, status |-> BMP_TYPE_MISMATCH]
    ELSE [bmp |-> StoreRGB(b, PixelOffset(b, x, y, b[1].Header.BitsPerPixel \div 8),
                           r, g, bl),
          status |-> BMP_OK]

BMP_SetPixelRGB(b, x, y, r, g, bl) ==
    IF b = NULL \/ x >= b[1].Header.Width \/ y >= b[1].Header.Height
    THEN [bmp |-> b, status |-> BMP_INVALID_ARGUMENT]
    ELSE IF b[1].Header.BitsPerPixel # 24 /\ b[1].Header.BitsPerPixel # 32
    THEN [bmp |-> b, status |-> BMP_TYPE_MISMATCH]
    ELSE LET bytes_per_pixel == b[1].Header.BitsPerPixel \div 8
             pixel == PixelOffset(b, x, y, bytes_per_pixel)
         IN  [bmp |-> StoreRGB(b, pixel, r, g, bl), status |-> BMP_OK]

BMP_GetPixelIndex(b, x, y) ==
    IF b = NULL \/ x >= b[1].Header.Width \/ y >= b[1].Header.Height
    THEN [status |-> BMP_INVALID_ARGUMENT, out |-> <<>>]
    ELSE IF b[1].Header.BitsPerPixel # 8
    THEN [status |-> BMP_TYPE_MISMATCH, out |-> <<>>]
    ELSE [status |-> BMP_OK, out |-> <<At(b[1].Data, PixelOffset(b, x, y, 1))>>]

\* A setter that does not look at the depth
BMP_SetPixelIndex_AnyDepth(b, x, y, val) ==
    IF b = NULL \/ x >= b[1].Header.Width \/ y >= b[1].Header.Height
    THEN [bmp |-> b, status |-> BMP_INVALID_ARGUMENT]
    ELSE [bmp |-> [b EXCEPT ![1].Data = Put(@, PixelOffset(b, x, y, 1), val)],
          status |-> BMP_OK]

BMP_SetPixelIndex(b, x, y, val) ==
    IF b = NULL \/ x >= b[1].Header.Width \/ y >= b[1].Header.Height
    THEN [bmp |-> b, status |-> BMP_INVALID_ARGUMENT]
    ELSE IF b[1].Header.BitsPerPixel # 8
    THEN [bmp |-> b, status |-> BMP_TYPE_MISMATCH]
    ELSE [bmp |-> [b EXCEPT ![1].Data = Put(@, PixelOffset(b, x, y, 1), val)],
          status |-> BMP_OK]

BMP_GetPaletteColor(b, index) ==
    IF b = NULL
    THEN [status |-> BMP_INVALID_ARGUMENT, out |-> <<>>]
    ELSE IF b[1].Header.BitsPerPixel # 8
    THEN [status |-> BMP_TYPE_MISMATCH, out |-> <<>>]
    ELSE [status |-> BMP_OK,
          out |-> <<At(b[1].Palette, index * 4 + 2),
                    At(b[1].Palette, index * 4 + 1),
                    At(b[1].Palette, index * 4 + 0)>>]

\* A setter that stores the colour in RGB order
BMP_SetPaletteColor_RGBOrder(b, index, r, g, bl) ==
    IF b = NULL
    THEN [bmp |-> b, status |-> BMP_INVALID_ARGUMENT]
    ELSE IF b[1].Header.BitsPerPixel # 8
    THEN [bmp |-> b, status |-> BMP_TYPE_MISMATCH]
    ELSE [bmp |-> [b EXCEPT ![1].Palette =
                      Put(Put(Put(@, index * 4 + 0, r), index * 4 + 1, g),
                          index * 4 + 2, bl)],
          status |-> BMP_OK]

BMP_SetPaletteColor(b, index, r, g, bl) ==
    IF b = NULL
    THEN [bmp |-> b, status |-> BMP_INVALID_ARGUMENT]
    ELSE IF b[1].Header.BitsPerPixel # 8
    THEN [bmp |-> b, status |-> BMP_TYPE_MISMATCH]
    ELSE [bmp |-> [b EXCEPT ![1].Palette =
                      Put(Put(Put(@, index * 4 + 2, r), index * 4 + 1, g),
                          index * 4 + 0, bl)],
          status |-> BMP_OK]

----------------------------------------------------------------------------
(* Byte-order codec.  An input stream is the file's bytes and a position;  *)
(* an output stream is the bytes accepted so far and the sink, which takes *)
(* every byte when it is not limited and otherwise the first cap bytes.    *)

Min(a, b) == IF a < b THEN a ELSE b

\* How many bytes of an n-byte fwrite the sink takes after `written' bytes
Accept(snk, written, n) ==
    IF ~snk.limited THEN n
    ELSE IF snk.cap - written <= 0 THEN 0
    ELSE Min(n, snk.cap - written)

\* The first n elements of a sequence
Take(seq, n) == SubSeq(seq, 1, n)

\* fread(little, 4, 1, f) and the little-endian assembly of *x
Readuint32_t(bytes, pos) ==
    IF Len(bytes) - pos < 4
    THEN [ok |-> FALSE, x |-> 0, pos |-> Len(bytes)]
    ELSE [ok |-> TRUE,
          x |-> At(bytes, pos + 3) * 16777216 + At(bytes, pos + 2) * 65536
                  + At(bytes, pos + 1) * 256 + At(bytes, pos),
          pos |-> pos + 4]

Readuint16_t(bytes, pos) ==
    IF Len(bytes) - pos < 2
    THEN [ok |-> FALSE, x |-> 0, pos |-> Len(bytes)]
    ELSE [ok |-> TRUE,
          x |-> At(bytes, pos + 1) * 256 + At(bytes, pos),
          pos |-> pos + 2]

\* little[0..3] of Writeuint32_t, then fwrite(little, 4, 1, f) == 1
Writeuint32_t(x, snk, out) ==
    LET little == << x % 256, (x \div 256) % 256,
                     (x \div 65536) % 256, (x \div 16777216) % 256 >>
        n == Accept(snk, Len(out), 4)
    IN  [ok |-> n = 4, out |-> out \o Take(little, n)]

Writeuint16_t(x, snk, out) ==
    LET little == << x % 256, (x \div 256) % 256 >>
        n == Accept(snk, Len(out), 2)
    IN  [ok |-> n = 2, out |-> out \o Take(little, n)]

----------------------------------------------------------------------------
(* Header *)

\* The fields of BMP_Header in the order ReadHeader and WriteHeader move
\* them, with their widths in bytes
HeaderFields ==
    << <<"Magic", 2>>, <<"FileSize", 4>>, <<"Reserved1", 2>>, <<"Reserved2", 2>>,
       <<"DataOffset", 4>>, <<"HeaderSize", 4>>, <<"Width", 4>>, <<"Height", 4>>,
       <<"Planes", 2>>, <<"BitsPerPixel", 2>>, <<"CompressionType", 4>>,
       <<"ImageDataSize", 4>>, <<"HPixelsPerMeter", 4>>, <<"VPixelsPerMeter", 4>>,
       <<"ColorsUsed", 4>>, <<"ColorsRequired", 4>> >>

\* The header of a calloc'ed struct _BMP
ZeroHeader == [f \in {HeaderFields[k][1] : k \in 1..Len(HeaderFields)} |-> 0]

RECURSIVE ReadHeaderFrom(_, _, _, _)
\* ReadHeader from field k on: stops with BMP_IO_ERROR at the first short read
ReadHeaderFrom(k, hdr, bytes, pos) ==
    IF k > Len(HeaderFields)
    THEN [status |-> BMP_OK, Header |-> hdr, pos |-> pos]
    ELSE LET name == HeaderFields[k][1]
             rd == IF HeaderFields[k][2] = 2
                   THEN Readuint16_t(bytes, pos)
                   ELSE Readuint32_t(bytes, pos)
         IN  IF ~rd.ok
             THEN [status |-> BMP_IO_ERROR, Header |-> hdr, pos |-> rd.pos]
             ELSE ReadHeaderFrom(k + 1, [hdr EXCEPT ![name] = rd.x], bytes, rd.pos)

ReadHeader(bytes) == ReadHeaderFrom(1, ZeroHeader, bytes, 0)

RECURSIVE WriteHeaderFrom(_, _, _, _)
\* WriteHeader from field k on: stops with BMP_IO_ERROR at the first failed write
WriteHeaderFrom(k, hdr, snk, out) ==
    IF k > Len(HeaderFields)
    THEN [status |-> BMP_OK, out |-> out]
    ELSE LET name == HeaderFields[k][1]
             wr == IF HeaderFields[k][2] = 2
                   THEN Writeuint16_t(hdr[name], snk, out)
                   ELSE Writeuint32_t(hdr[name], snk, out)
         IN  IF ~wr.ok
             THEN [status |-> BMP_IO_ERROR, out |-> wr.out]
             ELSE WriteHeaderFrom(k + 1, hdr, snk, wr.out)

WriteHeader(b, snk) ==
    IF b = NULL
    THEN [status |-> BMP_INVALID_ARGUMENT, out |-> <<>>]
    ELSE WriteHeaderFrom(1, b[1].Header, snk, <<>>)

----------------------------------------------------------------------------
(* BMP_ReadFile *)

\* buf with the n bytes of src that follow position pos stored from C offset
\* idx; the bytes stored past the end of buf are not in the result
Store(buf, idx, src, pos, n) ==
    [i \in 1..Len(buf) |->
        IF i - 1 >= idx /\ i - 1 < idx + n THEN At(src, pos + (i - 1 - idx)) ELSE buf[i]]

RECURSIVE ReadRows(_, _, _, _, _)
\* The row loop of BMP_ReadFile, entered with the loop variable at idx
ReadRows(hdr, data, bytes, pos, idx) ==
    IF ~(idx >= 0)
    THEN [ok |-> TRUE, Data |-> data, pos |-> pos, touched |-> {}]
    ELSE LET n == Min(hdr.Width, Len(bytes) - pos)
             data1 == Store(data, idx, bytes, pos, n)
             pos1 == pos + n
             remainder == 4 - (hdr.Width % 4)
             pos2 == IF hdr.Width % 4 # 0
                     THEN pos1 + Min(remainder, Len(bytes) - pos1)
                     ELSE pos1
             written == {idx + k : k \in 0..(n - 1)}
         IN  IF n # hdr.Width
             THEN [ok |-> FALSE, Data |-> data1, pos |-> pos1, touched |-> written]
             ELSE [ReadRows(hdr, data1, bytes, pos2, idx - hdr.Width)
                      EXCEPT !.touched = @ \cup written]

\* A variant test that does not look at the header size
Unsupported_AnyHeaderSize(hdr) ==
    (hdr.BitsPerPixel # 32 /\ hdr.BitsPerPixel # 24 /\ hdr.BitsPerPixel # 8)
       \/ hdr.CompressionType # 0

\* The test BMP_ReadFile makes of the bitmap variant
Unsupported(hdr) ==
    (hdr.BitsPerPixel # 32 /\ hdr.BitsPerPixel # 24 /\ hdr.BitsPerPixel # 8)
       \/ hdr.CompressionType # 0 \/ hdr.HeaderSize # 40

\* BMP_ReadFile of a file holding `bytes', when malloc hands out memory
\* filled with `fill': the handle returned, the status left behind, the
\* number of bytes consumed from the file and the offsets of the pixel buffer
\* written
BMP_ReadFile(file, fill) ==
    IF ~file.exists
    THEN [ret |-> NULL, status |-> BMP_FILE_NOT_FOUND, pos |-> 0, touched |-> {}]
    ELSE
    LET bytes == file.bytes
        rh == ReadHeader(bytes)
        hdr == rh.Header
    IN  IF rh.status # BMP_OK \/ hdr.Magic # 19778
        THEN [ret |-> NULL, status |-> BMP_FILE_INVALID, pos |-> rh.pos, touched |-> {}]
        ELSE IF Unsupported(hdr)
        THEN [ret |-> NULL, status |-> BMP_FILE_NOT_SUPPORTED, pos |-> rh.pos,
              touched |-> {}]
        ELSE
        LET npal == IF hdr.BitsPerPixel = 8
                    THEN Min(BMP_PALETTE_SIZE, Len(bytes) - rh.pos)
                    ELSE 0
            palette == IF hdr.BitsPerPixel = 8
                       THEN Store(Uninit(BMP_PALETTE_SIZE, fill), 0, bytes, rh.pos, npal)
                       ELSE NULL
            pos1 == rh.pos + npal
        IN  IF hdr.BitsPerPixel = 8 /\ npal # BMP_PALETTE_SIZE
            THEN [ret |-> NULL, status |-> BMP_FILE_INVALID, pos |-> pos1, touched |-> {}]
            ELSE
            LET rows == ReadRows(hdr, Uninit(hdr.ImageDataSize, fill), bytes, pos1,
                                 (hdr.Height - 1) * hdr.Width)
            IN  IF ~rows.ok
                THEN [ret |-> NULL, status |-> BMP_FILE_INVALID, pos |-> rows.pos,
                      touched |-> rows.touched]
                ELSE [ret |-> << [Header |-> hdr, Palette |-> palette,
                                  Data |-> rows.Data] >>,
                      status |-> BMP_OK, pos |-> rows.pos, touched |-> rows.touched]

----------------------------------------------------------------------------
(* BMP_WriteFile *)

RECURSIVE WriteRows(_, _, _, _)
\* The row loop of BMP_WriteFile, entered with the loop variable at idx
WriteRows(b, snk, out, idx) ==
    IF ~(idx >= 0)
    THEN [status |-> BMP_OK, out |-> out, touched |-> {}]
    ELSE LET hdr == b[1].Header
             n == Accept(snk, Len(out), hdr.Width)
             out1 == out \o SubSeq(b[1].Data, idx + 1, idx + n)
             remainder == 4 - (hdr.Width % 4)
             out2 == IF hdr.Width % 4 # 0
                     THEN out1 \o Zeroes(Accept(snk, Len(out1), remainder))
                     ELSE out1
             read == {idx + k : k \in 0..(n - 1)}
         IN  IF n # hdr.ImageDataSize
             THEN [status |-> BMP_IO_ERROR, out |-> out1, touched |-> read]
             ELSE [WriteRows(b, snk, out2, idx - hdr.Width)
                      EXCEPT !.touched = @ \cup read]

\* BMP_WriteFile of b to sink snk: the bytes the file holds afterwards, the
\* status left behind and the offsets of the pixel buffer read
BMP_WriteFile(b, snk) ==
    LET wh == WriteHeader(b, snk)
    IN  IF wh.status # BMP_OK
        THEN [status |-> BMP_IO_ERROR, out |-> wh.out, touched |-> {}]
        ELSE
        LET npal == IF b[1].Palette # NULL
                    THEN Accept(snk, Len(wh.out), BMP_PALETTE_SIZE)
                    ELSE 0
            out1 == wh.out \o Take(b[1].Palette, npal)
        IN  IF b[1].Palette # NULL /\ npal # BMP_PALETTE_SIZE
            THEN [status |-> BMP_IO_ERROR, out |-> out1, touched |-> {}]
            ELSE WriteRows(b, snk, out1, (b[1].Header.Height - 1) * b[1].Header.Width)

----------------------------------------------------------------------------
(* State machine.  The driver makes library calls on one handle and one    *)
(* file.  A run is a sequence of calls that change the handle or the file, *)
(* ended by at most one call that changes neither (a getter, or a setter   *)
(* that was refused): such a call writes only the error slot, which no     *)
(* library function reads, so what can follow it is what can follow the    *)
(* state before it.  The driver creates, then modifies, then writes the    *)
(* file once, then reads it back.                                          *)

NoCall == [op |-> "none", args |-> <<>>, out |-> <<>>]

NoSink == [src |-> NULL, limited |-> FALSE, cap |-> 0]

Init ==
    /\ bmp = NULL
    /\ BMP_LAST_ERROR_CODE = 0
    /\ disk = [exists |-> FALSE, bytes |-> <<>>]
    /\ sink = NoSink
    /\ call = NoCall
    /\ nsets = 0
    /\ touched = {}

GetterOps ==
    {"BMP_GetWidth", "BMP_GetHeight", "BMP_GetDepth",
     "BMP_GetPixelRGB", "BMP_GetPixelIndex", "BMP_GetPaletteColor"}

SetterOps == {"BMP_SetPixelRGB", "BMP_SetPixelIndex", "BMP_SetPaletteColor"}

\* The run has not ended
Idle ==
    /\ call.op # "SIGSEGV"
    /\ call.op \notin GetterOps
    /\ ~(call.op \in SetterOps /\ BMP_LAST_ERROR_CODE # BMP_OK)

\* Depth arguments tried: the three supported ones, and 0, 1, 16 which are not
Depths == {0, 1, 8, 16, 24, 32}

\* bmp = BMP_Create(width, height, depth), called before anything was
\* modified or written
DoCreate(width, height, depth) ==
    /\ Idle
    /\ ~disk.exists
    /\ nsets = 0
    /\ bmp' = BMP_Create(width, height, depth).ret
    /\ BMP_LAST_ERROR_CODE' = BMP_Create(width, height, depth).status
    /\ call' = [op |-> "BMP_Create", args |-> <<width, height, depth>>, out |-> <<>>]
    /\ touched' = {}
    /\ UNCHANGED <<disk, sink, nsets>>

\* Creation with dimensions up to MaxWidth x MaxHeight
Create ==
    \E width \in 0..MaxWidth, height \in 0..MaxHeight, depth \in Depths :
        DoCreate(width, height, depth)

\* Creation with dimensions up to MaxSide x MaxSide
CreateSmall ==
    \E width \in 0..MaxSide, height \in 0..MaxSide, depth \in Depths :
        DoCreate(width, height, depth)

\* A getter call with result res that dereferences the offsets offs of the
\* pixel buffer
Getter(op, args, res, offs) ==
    /\ Idle
    /\ BMP_LAST_ERROR_CODE' = res.status
    /\ call' = [op |-> op, args |-> args, out |-> res.out]
    /\ touched' = offs
    /\ UNCHANGED <<bmp, disk, sink, nsets>>

GetWidth ==
    Getter("BMP_GetWidth", <<>>,
           [status |-> BMP_GetWidth(bmp).status, out |-> <<BMP_GetWidth(bmp).ret>>], {})

GetHeight ==
    Getter("BMP_GetHeight", <<>>,
           [status |-> BMP_GetHeight(bmp).status, out |-> <<BMP_GetHeight(bmp).ret>>], {})

GetDepth ==
    Getter("BMP_GetDepth", <<>>,
           [status |-> BMP_GetDepth(bmp).status, out |-> <<BMP_GetDepth(bmp).ret>>], {})

\* Coordinates tried by the pixel accessors on handle b: every column and
\* row of the bitmap and the two past its last one
Xs(b) == IF b = NULL THEN {0} ELSE 0..(b[1].Header.Width + 1)

Ys(b) == IF b = NULL THEN {0} ELSE 0..(b[1].Header.Height + 1)

\* The colour (r, g, b) tried by the setters
RGBs == {<<10, 20, 30>>}

\* Palette indexes tried by the palette accessors and stored by BMP_SetPixelIndex
Indexes == {0, 5, 255}

GetPixelRGB ==
    \E x \in Xs(bmp), y \in Ys(bmp) :
        LET offs == PixelBytes("BMP_GetPixelRGB", bmp, x, y)
        IN  \E junk \in Junk(bmp, offs) :
                Getter("BMP_GetPixelRGB", <<x, y>>,
                       BMP_GetPixelRGB(InHeap(bmp, junk), x, y), offs)

GetPixelIndex ==
    \E x \in Xs(bmp), y \in Ys(bmp) :
        LET offs == PixelBytes("BMP_GetPixelIndex", bmp, x, y)
        IN  \E junk \in Junk(bmp, offs) :
                Getter("BMP_GetPixelIndex", <<x, y>>,
                       BMP_GetPixelIndex(InHeap(bmp, junk), x, y), offs)

GetPaletteColor ==
    \E index \in Indexes :
        Getter("BMP_GetPaletteColor", <<index>>, BMP_GetPaletteColor(bmp, index), {})

\* A setter call with result res that dereferences the offsets offs of the
\* pixel buffer, made before the file is written; at most MaxSets of them
\* succeed
Setter(op, args, res, offs) ==
    /\ Idle
    /\ ~disk.exists
    /\ res.status = BMP_OK => nsets < MaxSets
    /\ bmp' = res.bmp
    /\ BMP_LAST_ERROR_CODE' = res.status
    /\ call' = [op |-> op, args |-> args, out |-> <<>>]
    /\ nsets' = IF res.status = BMP_OK THEN nsets + 1 ELSE nsets
    /\ touched' = offs
    /\ UNCHANGED <<disk, sink>>

SetPixelRGB ==
    \E x \in Xs(bmp), y \in Ys(bmp), c \in RGBs :
        Setter("BMP_SetPixelRGB", <<x, y, c[1], c[2], c[3]>>,
               BMP_SetPixelRGB(bmp, x, y, c[1], c[2], c[3]),
               PixelBytes("BMP_SetPixelRGB", bmp, x, y))

SetPixelIndex ==
    \E x \in Xs(bmp), y \in Ys(bmp), val \in Indexes \ {0} :
        Setter("BMP_SetPixelIndex", <<x, y, val>>, BMP_SetPixelIndex(bmp, x, y, val),
               PixelBytes("BMP_SetPixelIndex", bmp, x, y))

SetPaletteColor ==
    \E index \in Indexes, c \in RGBs :
        Setter("BMP_SetPaletteColor", <<index, c[1], c[2], c[3]>>,
               BMP_SetPaletteColor(bmp, index, c[1], c[2], c[3]), {})

\* Sinks tried by BMP_WriteFile: one that accepts every write, one that
\* accepts nothing and one that is full two bytes after the header
Sinks ==
    {[limited |-> FALSE, cap |-> 0], [limited |-> TRUE, cap |-> 0],
     [limited |-> TRUE, cap |-> 56]}

\* BMP_WriteFile(bmp, filename): fopen(filename, "wb") empties the file,
\* then the sink snk decides how much of the output it holds
WriteFile ==
    \E snk \in Sinks :
        /\ Idle
        /\ ~disk.exists
        /\ disk' = [exists |-> TRUE, bytes |-> BMP_WriteFile(bmp, snk).out]
        /\ BMP_LAST_ERROR_CODE' = BMP_WriteFile(bmp, snk).status
        /\ sink' = [src |-> bmp, limited |-> snk.limited, cap |-> snk.cap]
        /\ call' = [op |-> "BMP_WriteFile", args |-> <<>>, out |-> <<>>]
        /\ touched' = BMP_WriteFile(bmp, snk).touched
        /\ UNCHANGED <<bmp, nsets>>

\* bmp = BMP_ReadFile(filename); call.out is the number of bytes consumed
ReadFile ==
    \E fill \in HeapBytes :
        LET rd == BMP_ReadFile(disk, fill)
        IN  /\ Idle
            /\ bmp' = rd.ret
            /\ BMP_LAST_ERROR_CODE' = rd.status
            /\ call' = [op |-> "BMP_ReadFile", args |-> <<fill>>, out |-> <<rd.pos>>]
            /\ touched' = rd.touched
            /\ UNCHANGED <<disk, sink, nsets>>

Next ==
    \/ Create
    \/ SetPixelRGB \/ SetPixelIndex \/ SetPaletteColor
    \/ WriteFile \/ ReadFile

Spec == Init /\ [][Next]_vars

----------------------------------------------------------------------------
(* Decoding of files that did not come from BMP_WriteFile.  A file is laid *)
(* out as the format prescribes for a width x height bitmap of the given   *)
(* depth: the 54 header bytes, the palette when the depth is 8, then       *)
(* ImageDataSize bytes of rows.  Some header fields are then overwritten   *)
(* and the file is cut short.                                              *)

\* Header fields overwritten in a file: none, a wrong magic, each of the
\* three unsupported variants, a wrong magic on an unsupported variant, and
\* three fields BMP_ReadFile stores as they come: a height of 0, a declared
\* size of one byte for the pixel rows, and a data offset inside the rows.
\* A width of 0 is not among them: with it the row loop of BMP_ReadFile
\* steps by 0 and the call does not return.
Overrides ==
    { <<>>,
      << <<"Magic", 19779>> >>,
      << <<"BitsPerPixel", 16>> >>,
      << <<"CompressionType", 1>> >>,
      << <<"HeaderSize", 108>> >>,
      << <<"Magic", 19779>>, <<"BitsPerPixel", 16>> >>,
      << <<"Height", 0>> >>,
      << <<"ImageDataSize", 1>> >>,
      << <<"DataOffset", 100>> >> }

RECURSIVE Override(_, _)
Override(hdr, ovr) ==
    IF ovr = <<>> THEN hdr
    ELSE Override([hdr EXCEPT ![ovr[1][1]] = ovr[1][2]], Tail(ovr))

\* Palette byte k of such a file is 3k mod 256; payload byte k is k + 1
FilePalette == [i \in 1..BMP_PALETTE_SIZE |-> ((i - 1) * 3) % 256]

FilePayload(n) == [i \in 1..n |-> i % 256]

\* The whole file
FileBytes(width, height, depth, ovr) ==
    LET hdr == CreateHeader(width, height, depth)
    IN  WriteHeaderFrom(1, Override(hdr, ovr), [limited |-> FALSE, cap |-> 0], <<>>).out
          \o (IF depth = 8 THEN FilePalette ELSE <<>>)
          \o FilePayload(hdr.ImageDataSize)

\* Lengths a file of full length n is cut to: inside the header, and up
\* to MaxShort bytes short of the end
Cuts(n) == {0, 1, 53, 54} \cup {n - k : k \in 0..MaxShort}

\* The environment puts a file at `filename'
Craft ==
    \E width \in 1..MaxSide, height \in 1..MaxSide, depth \in {8, 24, 32},
       ovr \in Overrides :
        \E len \in Cuts(Len(FileBytes(width, height, depth, ovr))) :
            /\ Idle
            /\ ~disk.exists
            /\ disk' = [exists |-> TRUE,
                        bytes |-> Take(FileBytes(width, height, depth, ovr), len)]
            /\ call' = [op |-> "craft", args |-> <<width, height, depth, len>>,
                        out |-> <<>>]
            /\ UNCHANGED <<bmp, BMP_LAST_ERROR_CODE, sink, nsets, touched>>

\* BMP_WriteFile(bmp, filename) of the bitmap that BMP_ReadFile has just
\* returned, over the file it came from
WriteBack ==
    \E snk \in Sinks :
        /\ Idle
        /\ call.op = "BMP_ReadFile"
        /\ bmp # NULL
        /\ \E junk \in Junk(bmp, BMP_WriteFile(InHeap(bmp, 0), snk).touched) :
              LET wr == BMP_WriteFile(InHeap(bmp, junk), snk)
              IN  /\ disk' = [exists |-> TRUE, bytes |-> wr.out]
                  /\ BMP_LAST_ERROR_CODE' = wr.status
                  /\ sink' = [src |-> bmp, limited |-> snk.limited, cap |-> snk.cap]
                  /\ call' = [op |-> "BMP_WriteFile", args |-> <<>>, out |-> <<>>]
                  /\ touched' = wr.touched
                  /\ UNCHANGED <<bmp, nsets>>

\* The process stopped by a signal in call op, having dereferenced offs
Killed(op, args, offs) ==
    /\ Idle
    /\ call' = [op |-> "SIGSEGV", args |-> <<op>> \o args, out |-> <<>>]
    /\ touched' = offs
    /\ UNCHANGED <<bmp, BMP_LAST_ERROR_CODE, disk, sink, nsets>>

\* BMP_ReadFile stopped where its row loop writes past the pixel buffer
FaultReadFile ==
    \E fill \in HeapBytes :
        LET rd == BMP_ReadFile(disk, fill)
        IN  /\ Idle
            /\ disk.exists
            /\ Overflows(rd.touched, ReadHeader(disk.bytes).Header.ImageDataSize)
            /\ Killed("BMP_ReadFile", <<>>, rd.touched)

\* A pixel getter stopped where it reads past the pixel buffer
FaultGetPixel ==
    \E op \in {"BMP_GetPixelRGB", "BMP_GetPixelIndex"}, x \in Xs(bmp), y \in Ys(bmp) :
        /\ Idle
        /\ bmp # NULL
        /\ Overflows(PixelBytes(op, bmp, x, y), Len(bmp[1].Data))
        /\ Killed(op, <<x, y>>, PixelBytes(op, bmp, x, y))

\* BMP_WriteFile stopped where its row loop reads past the pixel buffer
FaultWriteFile ==
    \E snk \in Sinks :
        /\ Idle
        /\ call.op = "BMP_ReadFile"
        /\ bmp # NULL
        /\ LET wr == BMP_WriteFile(InHeap(bmp, 0), snk)
           IN  /\ Overflows(wr.touched, Len(bmp[1].Data))
               /\ Killed("BMP_WriteFile", <<>>, wr.touched)

NextDecode ==
    \/ Craft \/ ReadFile \/ WriteBack
    \/ GetPixelRGB \/ GetPixelIndex \/ GetPaletteColor
    \/ FaultReadFile \/ FaultGetPixel \/ FaultWriteFile

SpecDecode == Init /\ [][NextDecode]_vars

----------------------------------------------------------------------------
(* Creation alone, over a wider range of arguments *)

NextCreate == Create \/ GetWidth \/ GetHeight \/ GetDepth

SpecCreate == Init /\ [][NextCreate]_vars

----------------------------------------------------------------------------
(* The accessors alone, on created bitmaps *)

NextAccess ==
    \/ CreateSmall
    \/ GetPixelRGB \/ SetPixelRGB \/ GetPixelIndex \/ SetPixelIndex
    \/ GetPaletteColor \/ SetPaletteColor

SpecAccess == Init /\ [][NextAccess]_vars

----------------------------------------------------------------------------
(* Properties *)

\* The pixels of bitmap b
Pixels(b) == (0..(b[1].Header.Width - 1)) \X (0..(b[1].Header.Height - 1))

\* n rounded up to a multiple of 4
Ceil4(n) == ((n + 3) \div 4) * 4

AllZero(buf) == \A i \in 1..Len(buf) : buf[i] = 0

\* Two bitmaps agree in every header field, in the palette and in what the
\* pixel getters return for every pixel
SameBitmap(a, b) ==
    /\ a[1].Header = b[1].Header
    /\ a[1].Palette = b[1].Palette
    /\ \A p \in Pixels(b) :
          /\ BMP_GetPixelRGB(a, p[1], p[2]) = BMP_GetPixelRGB(b, p[1], p[2])
          /\ BMP_GetPixelIndex(a, p[1], p[2]) = BMP_GetPixelIndex(b, p[1], p[2])

\* C1: a bitmap made by BMP_Create and the setters, written by
\* BMP_WriteFile to a sink that accepts every write and read back by
\* BMP_ReadFile, comes back with status BMP_OK and equal to the original in
\* the header, the palette and every pixel.
C1_RoundTrip ==
    (call.op = "BMP_ReadFile" /\ sink.src # NULL /\ ~sink.limited)
        => /\ BMP_LAST_ERROR_CODE = BMP_OK
           /\ bmp # NULL
           /\ SameBitmap(bmp, sink.src)

\* C2: after a successful BMP_Create(width, height, depth) the header has
\* ImageDataSize = RowStride * height with RowStride = width * depth/8
\* rounded up to a multiple of 4, DataOffset = 54 (+ 1024 at depth 8),
\* FileSize = DataOffset + ImageDataSize; RowStride is 4, 8, 8, 16 for
\* (width, depth) = (1, 24), (2, 24), (5, 8), (4, 32); and the accessors'
\* ImageDataSize / Height is that RowStride.
C2_CreateGeometry ==
    (call.op = "BMP_Create" /\ BMP_LAST_ERROR_CODE = BMP_OK)
        => LET width == call.args[1]
               height == call.args[2]
               depth == call.args[3]
               hdr == bmp[1].Header
               RowStride == Ceil4(width * (depth \div 8))
               DataOffset == IF depth = 8 THEN 54 + 1024 ELSE 54
           IN  /\ hdr.Width = width /\ hdr.Height = height /\ hdr.BitsPerPixel = depth
               /\ hdr.ImageDataSize = RowStride * height
               /\ hdr.DataOffset = DataOffset
               /\ hdr.FileSize = DataOffset + RowStride * height
               /\ RowBytes(bmp) = RowStride
               /\ (width = 1 /\ depth = 24) => RowBytes(bmp) = 4
               /\ (width = 2 /\ depth = 24) => RowBytes(bmp) = 8
               /\ (width = 5 /\ depth = 8) => RowBytes(bmp) = 8
               /\ (width = 4 /\ depth = 32) => RowBytes(bmp) = 16

\* A width 5, depth 8 bitmap of two rows has been created: 16 bytes of pixels
C2_Witness ==
    /\ call.op = "BMP_Create"
    /\ call.args = <<5, 2, 8>>
    /\ BMP_LAST_ERROR_CODE = BMP_OK
    /\ bmp[1].Header.ImageDataSize = 16

\* C10: BMP_Create refuses width or height 0 with BMP_INVALID_ARGUMENT,
\* whatever the depth; refuses positive dimensions with a depth other than
\* 8, 24, 32 with BMP_FILE_NOT_SUPPORTED; returns NULL in both cases; and
\* otherwise returns, with BMP_OK, a bitmap whose pixel buffer is all zero,
\* whose palette exists (1024 zero bytes) exactly at depth 8 and whose header
\* has magic 0x4D42, HeaderSize 40, Planes 1, no compression and zero
\* resolution and colour counts.
C10_CreateValidation ==
    call.op = "BMP_Create"
        => LET width == call.args[1]
               height == call.args[2]
               depth == call.args[3]
           IN  IF width <= 0 \/ height <= 0
               THEN BMP_LAST_ERROR_CODE = BMP_INVALID_ARGUMENT /\ bmp = NULL
               ELSE IF depth \notin {8, 24, 32}
               THEN BMP_LAST_ERROR_CODE = BMP_FILE_NOT_SUPPORTED /\ bmp = NULL
               ELSE /\ BMP_LAST_ERROR_CODE = BMP_OK
                    /\ bmp # NULL
                    /\ Len(bmp[1].Data) = bmp[1].Header.ImageDataSize
                    /\ AllZero(bmp[1].Data)
                    /\ (bmp[1].Palette # NULL) <=> (depth = 8)
                    /\ depth = 8 => Len(bmp[1].Palette) = 1024 /\ AllZero(bmp[1].Palette)
                    /\ bmp[1].Header.Magic = 19778
                    /\ bmp[1].Header.HeaderSize = 40
                    /\ bmp[1].Header.Planes = 1
                    /\ bmp[1].Header.CompressionType = 0
                    /\ bmp[1].Header.HPixelsPerMeter = 0
                    /\ bmp[1].Header.VPixelsPerMeter = 0
                    /\ bmp[1].Header.ColorsUsed = 0
                    /\ bmp[1].Header.ColorsRequired = 0

\* A zero width with an unsupported depth has been refused as an invalid argument
C10_Witness ==
    /\ call.op = "BMP_Create"
    /\ call.args = <<0, 1, 16>>
    /\ BMP_LAST_ERROR_CODE = BMP_INVALID_ARGUMENT
    /\ bmp = NULL

PixelOps ==
    {"BMP_GetPixelRGB", "BMP_SetPixelRGB", "BMP_GetPixelIndex", "BMP_SetPixelIndex"}

\* The call (x, y, ...) is made on a bitmap and (x, y) is one of its pixels
InBounds(b, c) ==
    b # NULL /\ c.args[1] < b[1].Header.Width /\ c.args[2] < b[1].Header.Height

\* C3: a pixel accessor called on a bitmap of any depth with x >= Width or
\* y >= Height leaves BMP_INVALID_ARGUMENT, stores nothing through its
\* output pointers and leaves the header, the palette and the pixel buffer
\* as they were, also when the depth is the wrong one for the accessor.
C3_BoundsRefused ==
    [][ (call'.op \in PixelOps /\ bmp # NULL /\ ~InBounds(bmp, call'))
            => /\ BMP_LAST_ERROR_CODE' = BMP_INVALID_ARGUMENT
               /\ call'.out = <<>>
               /\ bmp' = bmp ]_vars

\* BMP_SetPixelRGB was called on a depth 8 bitmap with x = Width and was
\* refused as an invalid argument, not as a type mismatch
C3_Witness ==
    /\ call.op = "BMP_SetPixelRGB"
    /\ bmp # NULL
    /\ bmp[1].Header.BitsPerPixel = 8
    /\ call.args[1] = bmp[1].Header.Width
    /\ call.args[2] < bmp[1].Header.Height
    /\ BMP_LAST_ERROR_CODE = BMP_INVALID_ARGUMENT

\* C4: for a pixel of the bitmap, BMP_SetPixelRGB at depth 8 and
\* BMP_GetPixelIndex and BMP_SetPixelIndex at depth 24 or 32 leave
\* BMP_TYPE_MISMATCH and change no byte of the bitmap, while
\* BMP_GetPixelRGB at depth 8 leaves BMP_OK and returns the palette entry
\* selected by the pixel's stored index.
C4_DepthGating ==
    [][ (call'.op \in PixelOps /\ InBounds(bmp, call')) =>
          LET depth == bmp[1].Header.BitsPerPixel
              x == call'.args[1]
              y == call'.args[2]
              index == At(bmp[1].Data,
                          (bmp[1].Header.Height - 1 - y) * Ceil4(bmp[1].Header.Width) + x)
          IN  /\ (call'.op = "BMP_SetPixelRGB" /\ depth = 8)
                    => BMP_LAST_ERROR_CODE' = BMP_TYPE_MISMATCH /\ bmp' = bmp
              /\ (call'.op \in {"BMP_GetPixelIndex", "BMP_SetPixelIndex"}
                    /\ depth \in {24, 32})
                    => /\ BMP_LAST_ERROR_CODE' = BMP_TYPE_MISMATCH
                       /\ bmp' = bmp
                       /\ call'.out = <<>>
              /\ (call'.op = "BMP_GetPixelRGB" /\ depth = 8)
                    => /\ BMP_LAST_ERROR_CODE' = BMP_OK
                       /\ bmp' = bmp
                       /\ call'.out = << At(bmp[1].Palette, 4 * index + 2),
                                         At(bmp[1].Palette, 4 * index + 1),
                                         At(bmp[1].Palette, 4 * index) >> ]_vars

\* BMP_SetPixelIndex was called on a pixel of a depth 24 bitmap that had
\* been modified before, and was refused as a type mismatch
C4_Witness ==
    /\ call.op = "BMP_SetPixelIndex"
    /\ InBounds(bmp, call)
    /\ bmp[1].Header.BitsPerPixel = 24
    /\ nsets > 0
    /\ BMP_LAST_ERROR_CODE = BMP_TYPE_MISMATCH

\* C9: after a successful BMP_SetPaletteColor(index, r, g, b) on a depth 8
\* bitmap, BMP_GetPaletteColor(index) returns (r, g, b), BMP_GetPixelRGB
\* returns (r, g, b) for every pixel whose stored index is index, and the
\* other palette entries, the fourth byte of entry index and the pixel
\* buffer are as before.
C9_PaletteLookup ==
    [][ (call'.op = "BMP_SetPaletteColor" /\ bmp # NULL /\ bmp[1].Header.BitsPerPixel = 8)
          => LET index == call'.args[1]
                 rgb == <<call'.args[2], call'.args[3], call'.args[4]>>
             IN  /\ BMP_LAST_ERROR_CODE' = BMP_OK
                 /\ BMP_GetPaletteColor(bmp', index) = [status |-> BMP_OK, out |-> rgb]
                 /\ \A p \in Pixels(bmp') :
                       BMP_GetPixelIndex(bmp', p[1], p[2]).out = <<index>>
                          => BMP_GetPixelRGB(bmp', p[1], p[2])
                               = [status |-> BMP_OK, out |-> rgb]
                 /\ \A k \in 0..(BMP_PALETTE_SIZE - 1) :
                       k \notin {4 * index, 4 * index + 1, 4 * index + 2}
                          => At(bmp'[1].Palette, k) = At(bmp[1].Palette, k)
                 /\ bmp'[1].Data = bmp[1].Data
                 /\ bmp'[1].Header = bmp[1].Header ]_vars

\* Palette entry 5 was set to (10, 20, 30) after a pixel had been given the
\* index 5, and that pixel now reads (10, 20, 30)
C9_Witness ==
    /\ call.op = "BMP_SetPaletteColor"
    /\ call.args = <<5, 10, 20, 30>>
    /\ BMP_LAST_ERROR_CODE = BMP_OK
    /\ \E p \in Pixels(bmp) :
          /\ BMP_GetPixelIndex(bmp, p[1], p[2]).out = <<5>>
          /\ BMP_GetPixelRGB(bmp, p[1], p[2]).out = <<10, 20, 30>>

\* The little-endian number in the n bytes at offset off of a file
FieldAt(bytes, off, n) ==
    IF n = 2 THEN At(bytes, off) + 256 * At(bytes, off + 1)
    ELSE At(bytes, off) + 256 * At(bytes, off + 1) + 65536 * At(bytes, off + 2)
           + 16777216 * At(bytes, off + 3)

\* Where the file format puts each header field
FieldOffset ==
    [ Magic |-> 0, FileSize |-> 2, Reserved1 |-> 6, Reserved2 |-> 8, DataOffset |-> 10,
      HeaderSize |-> 14, Width |-> 18, Height |-> 22, Planes |-> 26, BitsPerPixel |-> 28,
      CompressionType |-> 30, ImageDataSize |-> 34, HPixelsPerMeter |-> 38,
      VPixelsPerMeter |-> 42, ColorsUsed |-> 46, ColorsRequired |-> 50 ]

FieldSize ==
    [ f \in DOMAIN FieldOffset |->
        IF f \in {"Magic", "Reserved1", "Reserved2", "Planes", "BitsPerPixel"} THEN 2 ELSE 4 ]

\* Field f of the header a file of at least 54 bytes starts with
FileField(bytes, f) == FieldAt(bytes, FieldOffset[f], FieldSize[f])

\* The file starts with a whole header that has the magic "BM"
GoodMagic(bytes) == Len(bytes) >= 54 /\ At(bytes, 0) = 66 /\ At(bytes, 1) = 77

\* The header of the file describes a variant the library supports
SupportedFile(bytes) ==
    /\ FileField(bytes, "BitsPerPixel") \in {8, 24, 32}
    /\ FileField(bytes, "CompressionType") = 0
    /\ FileField(bytes, "HeaderSize") = 40

\* The number of bytes before the pixel rows of a supported file
RowsStart(bytes) ==
    IF FileField(bytes, "BitsPerPixel") = 8 THEN 54 + 1024 ELSE 54

\* C5: BMP_ReadFile of a file with a whole, valid, supported header (and a
\* whole palette at depth 8) but fewer bytes of pixel rows than the header's
\* ImageDataSize leaves BMP_FILE_INVALID and returns NULL.
C5_TruncatedRejected ==
    ( /\ call.op = "BMP_ReadFile"
      /\ GoodMagic(disk.bytes)
      /\ SupportedFile(disk.bytes)
      /\ Len(disk.bytes) >= RowsStart(disk.bytes)
      /\ Len(disk.bytes) - RowsStart(disk.bytes) < FileField(disk.bytes, "ImageDataSize") )
        => BMP_LAST_ERROR_CODE = BMP_FILE_INVALID /\ bmp = NULL

\* C6: BMP_ReadFile of a file that is shorter than a header or does not
\* start with "BM" leaves BMP_FILE_INVALID; of a file with a whole header
\* and the magic but a depth other than 8, 24, 32, a compression type other
\* than 0 or a header size other than 40 it leaves BMP_FILE_NOT_SUPPORTED
\* having consumed the 54 header bytes and no more; it returns NULL in both
\* cases.
C6_UnsupportedRejected ==
    (call.op = "BMP_ReadFile" /\ disk.exists)
        => /\ ~GoodMagic(disk.bytes)
                => BMP_LAST_ERROR_CODE = BMP_FILE_INVALID /\ bmp = NULL
           /\ (GoodMagic(disk.bytes) /\ ~SupportedFile(disk.bytes))
                => /\ BMP_LAST_ERROR_CODE = BMP_FILE_NOT_SUPPORTED
                   /\ bmp = NULL
                   /\ call.out = <<54>>

\* A file whose header is whole, has the magic and says HeaderSize 108, with
\* pixel rows after it, was refused as not supported
C6_Witness ==
    /\ call.op = "BMP_ReadFile"
    /\ GoodMagic(disk.bytes)
    /\ FileField(disk.bytes, "HeaderSize") = 108
    /\ Len(disk.bytes) > 54
    /\ BMP_LAST_ERROR_CODE = BMP_FILE_NOT_SUPPORTED
    /\ bmp = NULL

\* The bytes of a file from offset `from' on
FileFrom(bytes, from) == SubSeq(bytes, from + 1, Len(bytes))

\* C7: when a fresh depth 24 or 32 bitmap has had one pixel (x, y) set to
\* (r, g, b) and is written to a sink that accepts every write, the pixel
\* rows in the file are ImageDataSize bytes that hold b, g, r at offset
\* (Height - 1 - y) * RowStride + x * BytesPerPixel and zero everywhere
\* else; for a 2 x 2 depth 24 bitmap and pixel (0, 0) that is the start of
\* the last row.
C7_Orientation ==
    (call.op = "BMP_WriteFile" /\ ~sink.limited /\ bmp # NULL)
        => \A p \in Pixels(bmp) : \A c \in RGBs :
              LET hdr == bmp[1].Header
                  bpp == hdr.BitsPerPixel \div 8
                  fresh == NewBitmap(hdr.Width, hdr.Height, hdr.BitsPerPixel)
                  off == (hdr.Height - 1 - p[2]) * Ceil4(hdr.Width * bpp) + p[1] * bpp
                  rows == FileFrom(disk.bytes, hdr.DataOffset)
              IN  ( /\ hdr.BitsPerPixel \in {24, 32}
                    /\ bmp = BMP_SetPixelRGB(fresh, p[1], p[2], c[1], c[2], c[3]).bmp )
                    => /\ Len(rows) = hdr.ImageDataSize
                       /\ \A k \in 0..(Len(rows) - 1) :
                             At(rows, k) = IF k = off THEN c[3]
                                           ELSE IF k = off + 1 THEN c[2]
                                           ELSE IF k = off + 2 THEN c[1]
                                           ELSE 0

\* C8: BMP_WriteFile of a bitmap to a sink that accepts every write leaves
\* BMP_OK and a file of FileSize bytes: the 54 header bytes holding the 16
\* fields, the palette exactly at depth 8, then ImageDataSize bytes, Height
\* rows of RowStride bytes, the bytes after the first Width * BytesPerPixel
\* of each row being zero; BMP_IO_ERROR is left only when a write failed.
C8_EncodedLayout ==
    (call.op = "BMP_WriteFile" /\ bmp # NULL)
        => LET hdr == bmp[1].Header
               bpp == hdr.BitsPerPixel \div 8
               stride == Ceil4(hdr.Width * bpp)
               rows == FileFrom(disk.bytes, hdr.DataOffset)
           IN  /\ BMP_LAST_ERROR_CODE = BMP_IO_ERROR => sink.limited
               /\ ~sink.limited
                    => /\ BMP_LAST_ERROR_CODE = BMP_OK
                       /\ Len(disk.bytes) = hdr.FileSize
                       /\ \A f \in DOMAIN FieldOffset : FileField(disk.bytes, f) = hdr[f]
                       /\ hdr.BitsPerPixel = 8
                            => SubSeq(disk.bytes, 55, 54 + 1024) = bmp[1].Palette
                       /\ Len(rows) = hdr.ImageDataSize
                       /\ Len(rows) = hdr.Height * stride
                       /\ \A k \in 0..(Len(rows) - 1) :
                             k % stride >= hdr.Width * bpp => At(rows, k) = 0

\* The file is whole and its header describes its own layout: a supported
\* variant, positive dimensions, the rows at DataOffset and RowStride * Height
\* bytes of them, up to the end of the file
WellFormedFile(bytes) ==
    /\ GoodMagic(bytes)
    /\ SupportedFile(bytes)
    /\ FileField(bytes, "Width") > 0
    /\ FileField(bytes, "Height") > 0
    /\ FileField(bytes, "DataOffset") = RowsStart(bytes)
    /\ FileField(bytes, "ImageDataSize")
          = Ceil4(FileField(bytes, "Width") * (FileField(bytes, "BitsPerPixel") \div 8))
              * FileField(bytes, "Height")
    /\ Len(bytes) = RowsStart(bytes) + FileField(bytes, "ImageDataSize")

\* C11: after BMP_ReadFile has decoded a well-formed file of depth d, width
\* W and height H, a pixel getter at (x, y) returns what the file holds at
\* offset DataOffset + (H - 1 - y) * RowStride + x * (d / 8): at depth 24 and
\* 32 the three bytes there as (r, g, b) = (byte 2, byte 1, byte 0), at depth
\* 8 that byte as the index and the file's palette entry of it as the colour.
C11_DecodePlacement ==
    ( /\ call.op \in {"BMP_GetPixelRGB", "BMP_GetPixelIndex"}
      /\ disk.exists
      /\ WellFormedFile(disk.bytes)
      /\ InBounds(bmp, call) )
        => LET d == FileField(disk.bytes, "BitsPerPixel")
               W == FileField(disk.bytes, "Width")
               H == FileField(disk.bytes, "Height")
               x == call.args[1]
               y == call.args[2]
               off == FileField(disk.bytes, "DataOffset")
                        + (H - 1 - y) * Ceil4(W * (d \div 8)) + x * (d \div 8)
               entry == 54 + 4 * At(disk.bytes, off)
           IN  /\ (call.op = "BMP_GetPixelRGB" /\ d \in {24, 32})
                    => /\ BMP_LAST_ERROR_CODE = BMP_OK
                       /\ call.out = << At(disk.bytes, off + 2), At(disk.bytes, off + 1),
                                        At(disk.bytes, off) >>
               /\ (call.op = "BMP_GetPixelRGB" /\ d = 8)
                    => /\ BMP_LAST_ERROR_CODE = BMP_OK
                       /\ call.out = << At(disk.bytes, entry + 2), At(disk.bytes, entry + 1),
                                        At(disk.bytes, entry) >>
               /\ (call.op = "BMP_GetPixelIndex" /\ d = 8)
                    => /\ BMP_LAST_ERROR_CODE = BMP_OK
                       /\ call.out = << At(disk.bytes, off) >>

\* C12: every live bitmap has HeaderSize 40, CompressionType 0, a depth of
\* 8, 24 or 32, positive Width and Height, DataOffset 54 (+ 1024 at depth 8),
\* ImageDataSize = RowStride * Height and a palette exactly at depth 8, after
\* BMP_ReadFile has returned it as after BMP_Create, and BMP_WriteFile leaves
\* every header field as it was.
C12_HeaderInvariant ==
    /\ bmp # NULL
         => LET hdr == bmp[1].Header
            IN  /\ hdr.HeaderSize = 40
                /\ hdr.CompressionType = 0
                /\ hdr.BitsPerPixel \in {8, 24, 32}
                /\ hdr.Width > 0
                /\ hdr.Height > 0
                /\ hdr.DataOffset = 54 + (IF hdr.BitsPerPixel = 8 THEN 1024 ELSE 0)
                /\ hdr.ImageDataSize
                     = Ceil4(hdr.Width * (hdr.BitsPerPixel \div 8)) * hdr.Height
                /\ (bmp[1].Palette # NULL) <=> (hdr.BitsPerPixel = 8)
    /\ (call.op = "BMP_WriteFile" /\ sink.src # NULL)
         => bmp[1].Header = sink.src[1].Header

\* The size of the pixel buffer the last call worked on: that of the live
\* bitmap, or the one BMP_ReadFile allocated for the file's header when it
\* returned none
BufferSize ==
    IF bmp # NULL THEN bmp[1].Header.ImageDataSize
    ELSE FileField(disk.bytes, "ImageDataSize")

\* C13: every offset of the pixel buffer that the row loop of BMP_ReadFile
\* writes, that the row loop of BMP_WriteFile reads and that a pixel getter
\* dereferences for a pixel of a decoded bitmap lies in 0..ImageDataSize - 1,
\* whatever Width, Height and ImageDataSize the file's header declares.
C13_BufferSafety ==
    \A k \in touched : 0 <= k /\ k < BufferSize

====
